---------------------------- MODULE Spec2Model ----------------------------
(***************************************************************************)
(* CausalAttention of appendix-notebooks/App-B-Transformer-Basic.ipynb:    *)
(* one module instance (three projection weights, a dropout probability,   *)
(* the registered causal mask) and the forward calls made on it, each      *)
(* call stepping through the statements of forward with its own local      *)
(* tensors.                                                                *)
(*                                                                         *)
(* Numbers.  Tensor entries are exact numbers: inputs, weights, keys,      *)
(* queries, values and raw scores are integers; attention weights and      *)
(* context vectors are exact fractions <<num, den>> in lowest terms.  The  *)
(* only non-finite value is the negative infinity masked_fill_ writes.     *)
(* exp(s / sqrt(d_out)) is tabulated to two decimals (ExpScaled).          *)
(* Batch and token positions count from 0 as in the code; feature          *)
(* vectors are tuples.                                                     *)
(***************************************************************************)
EXTENDS Integers, Sequences, FiniteSets, TLC

\* ------------------------------------------------------------------ bounds

\* Largest context_length a module is built with.
MaxCtx == 3

\* Longest sequence two concurrent calls are given.
MaxConcTokens == 3

\* ------------------------------------------------------- program constants

\* d_in = inputs.shape[1]: the width of the rows of `inputs`.
DIn == 3

\* d_out = 2
DOut == 2

\* batch = torch.stack((inputs, inputs), dim=0): two sequences per batch.
BatchSize == 2

\* The token embeddings input sequences are made of (integer stand-ins for
\* the rows of `inputs`).
Vocab == { <<1, 0, 1>>, <<0, 1, 1>> }

\* The forward calls that may be in progress on the one instance.
Calls == {1, 2}

\* The dropout probabilities a module is built with, in percent.
DropoutSettings == {0, 50}

\* ----------------------------------------------------------------- numbers

RECURSIVE GCD(_, _)
GCD(a, b) == IF b = 0 THEN a ELSE GCD(b, a % b)

Abs(a) == IF a < 0 THEN -a ELSE a

\* The fraction num/den (den > 0) in lowest terms.
Frac(num, den) ==
    LET g == GCD(Abs(num), den)
    IN  IF num = 0 THEN <<0, 1>> ELSE <<num \div g, den \div g>>

FAdd(p, q) == Frac(p[1] * q[2] + q[1] * p[2], p[2] * q[2])

FScale(k, p) == Frac(k * p[1], p[2])

FZero == <<0, 1>>

FOne == <<1, 1>>

\* Sum of f[j] over j in 0..(len-1), fractions.
RECURSIVE FSum(_, _)
FSum(f, len) == IF len = 0 THEN FZero ELSE FAdd(FSum(f, len - 1), f[len - 1])

\* Sum of f[j] over j in 0..(len-1), integers.
RECURSIVE ISum(_, _)
ISum(f, len) == IF len = 0 THEN 0 ELSE ISum(f, len - 1) + f[len - 1]

\* A score: a finite number, or the negative infinity of masked_fill_.
Finite(v) == [neg_inf |-> FALSE, val |-> v]

NegInf == [neg_inf |-> TRUE, val |-> 0]

\* ------------------------------------------------------------ tensor shapes

\* x.shape[0] and x.shape[1] of a batch of sequences.
BatchDim(t) == Cardinality(DOMAIN t)

NumTokens(t) == Cardinality(DOMAIN t[0])

\* The batches of BatchSize sequences of n tokens.
Batches(n) == [0 .. BatchSize - 1 -> [0 .. n - 1 -> Vocab]]

\* The batches made of one n-token sequence stacked BatchSize times.
StackedBatches(n) ==
    { [k \in 0 .. BatchSize - 1 |-> s] : s \in [0 .. n - 1 -> Vocab] }

\* A local tensor not yet assigned.
None == <<>>

\* The value t itself, computed once and then held entry by entry (the
\* comparison makes the evaluation store it).
Held(t) == IF t = t THEN t ELSE None

\* ------------------------------------------------------------- __init__

\* nn.Linear(d_in, d_out, bias=False) weights, d_out rows of d_in entries,
\* fixed after construction.
InitQuery == << <<1, 0, 0>>, <<0, 1, 0>> >>

InitKey == << <<1, -1, 0>>, <<0, 1, 0>> >>

InitValue == << <<1, 0, 1>>, <<0, 2, -1>> >>

\* Triu with the diagonal included whatever `diagonal` says (diagonal = 0).
TriuFromDiagonal(len, diagonal) ==
    [i \in 0 .. len - 1 |->
        [j \in 0 .. len - 1 |-> IF j - i >= 0 THEN 1 ELSE 0]]

\* torch.triu(torch.ones(len, len), diagonal): ones where j - i >= diagonal.
Triu(len, diagonal) ==
    [i \in 0 .. len - 1 |->
        [j \in 0 .. len - 1 |-> IF j - i >= diagonal THEN 1 ELSE 0]]

\* ---------------------------------------------------- the steps of forward

\* nn.Linear without bias applied to every token: y = x W^T.
Linear(W, t) ==
    [k \in DOMAIN t |->
        [i \in DOMAIN t[k] |->
            [o \in 1 .. Len(W) |->
                ISum([d \in 0 .. DIn - 1 |-> W[o][d + 1] * t[k][i][d + 1]], DIn)]]]

\* ScoreMatrix with the keys of batch element 0 used for every element.
ScoreMatrixFirstKeys(q, kk) ==
    [k \in DOMAIN q |->
        [i \in DOMAIN q[k] |->
            [j \in DOMAIN kk[0] |->
                Finite(ISum([o \in 0 .. DOut - 1 |->
                                q[k][i][o + 1] * kk[0][j][o + 1]], DOut))]]]

\* queries @ keys.transpose(1, 2): per batch element, the n x n dot products.
ScoreMatrix(q, kk) ==
    [k \in DOMAIN q |->
        [i \in DOMAIN q[k] |->
            [j \in DOMAIN kk[k] |->
                Finite(ISum([o \in 0 .. DOut - 1 |->
                                q[k][i][o + 1] * kk[k][j][o + 1]], DOut))]]]

\* MaskBool negated: true where the buffer holds 0.
MaskBoolInverted(m) ==
    [i \in DOMAIN m |-> [j \in DOMAIN m[i] |-> m[i][j] = 0]]

\* self.mask.bool()
MaskBool(m) ==
    [i \in DOMAIN m |-> [j \in DOMAIN m[i] |-> m[i][j] # 0]]

\* m[:n, :n]: a slice never reaches past the rows and columns m has.
Slice(m, n) ==
    LET have == Cardinality(DOMAIN m)
        take == IF n < have THEN n ELSE have
    IN  [i \in 0 .. take - 1 |-> [j \in 0 .. take - 1 |-> m[i][j]]]

\* Whether a (rows x rows) mask broadcasts to (b, n, n) scores: each of its
\* dimensions is n or 1.
Broadcastable(rows, n) == rows = n \/ rows = 1

\* MaskedFill writing 0 instead of negative infinity.
MaskedFillZero(s, bm) ==
    LET rows == Cardinality(DOMAIN bm)
        At(i) == IF rows = 1 THEN 0 ELSE i
    IN  [k \in DOMAIN s |->
            [i \in DOMAIN s[k] |->
                [j \in DOMAIN s[k][i] |->
                    IF bm[At(i)][At(j)] THEN Finite(0) ELSE s[k][i][j]]]]

\* masked_fill_(mask, -inf) on scores the mask broadcasts to: a dimension of
\* size 1 is repeated.
MaskedFill(s, bm) ==
    LET rows == Cardinality(DOMAIN bm)
        At(i) == IF rows = 1 THEN 0 ELSE i
    IN  [k \in DOMAIN s |->
            [i \in DOMAIN s[k] |->
                [j \in DOMAIN s[k][i] |->
                    IF bm[At(i)][At(j)] THEN NegInf ELSE s[k][i][j]]]]

\* round(100 * exp(v / sqrt(2))), v / keys.shape[-1]**0.5 with d_out = 2.
ExpTable == [v \in -4 .. 4 |->
    CASE v = -4 -> 6    [] v = -3 -> 12   [] v = -2 -> 24  [] v = -1 -> 49
      [] v = 0  -> 100  [] v = 1  -> 203  [] v = 2  -> 411 [] v = 3  -> 834
      [] v = 4  -> 1692]

\* exp of a scaled score; exp(-inf) = 0.
ExpScaled(e) == IF e.neg_inf THEN 0 ELSE ExpTable[e.val]

\* Softmax over dim=-2: each column divided by its sum.
SoftmaxOverColumns(s) ==
    [k \in DOMAIN s |->
        [i \in DOMAIN s[k] |->
            [j \in DOMAIN s[k][i] |->
                LET n   == Cardinality(DOMAIN s[k])
                    col == [r \in DOMAIN s[k] |-> ExpScaled(s[k][r][j])]
                IN  Frac(col[i], ISum(col, n))]]]

\* torch.softmax(scores / d_out**0.5, dim=-1): each row divided by its sum.
Softmax(s) ==
    [k \in DOMAIN s |->
        [i \in DOMAIN s[k] |->
            LET n   == Cardinality(DOMAIN s[k][i])
                ex  == [j \in DOMAIN s[k][i] |-> ExpScaled(s[k][i][j])]
                tot == ISum(ex, n)
            IN  [j \in DOMAIN s[k][i] |-> Frac(ex[j], tot)]]]

\* The keep-masks dropout may draw for (b, n, n) weights at probability p
\* (percent): at p = 0 every entry is kept; at p > 0 the draws modelled are
\* those that drop at most one entry.
KeepMasks(p, b, n) ==
    LET all == [k \in 0 .. b - 1 |-> [i \in 0 .. n - 1 |-> [j \in 0 .. n - 1 |-> TRUE]]]
    IN  IF p = 0 THEN {all}
        ELSE {all} \cup
             { [all EXCEPT ![k][i][j] = FALSE] :
                  k \in 0 .. b - 1, i \in 0 .. n - 1, j \in 0 .. n - 1 }

\* nn.Dropout(p) in training mode: a dropped entry becomes 0, a kept one is
\* scaled by 1 / (1 - p).
Dropout(p, w, keep) ==
    [k \in DOMAIN w |->
        [i \in DOMAIN w[k] |->
            [j \in DOMAIN w[k][i] |->
                IF keep[k][i][j]
                THEN Frac(100 * w[k][i][j][1], (100 - p) * w[k][i][j][2])
                ELSE FZero]]]

\* attn_weights @ values
WeightedSum(w, v) ==
    [k \in DOMAIN w |->
        [i \in DOMAIN w[k] |->
            [o \in 1 .. DOut |->
                FSum([j \in DOMAIN w[k][i] |-> FScale(v[k][j][o], w[k][i][j])],
                     Cardinality(DOMAIN w[k][i]))]]]

\* ----------------------------------------------------- forward, run alone

\* forward(t) on a module with mask m, weights Wq, Wk, Wv and dropout 0, run
\* from its first statement to its last with nothing else running: whether
\* it returns (ok) and the context vectors it returns (out).
Forward(m, Wq, Wk, Wv, t) ==
    LET num_tokens == NumTokens(t)
        kk == Held(Linear(Wk, t))
        q  == Held(Linear(Wq, t))
        v  == Held(Linear(Wv, t))
        s  == Held(ScoreMatrix(q, kk))
        bm == Held(Slice(MaskBool(m), num_tokens))
    IN  IF Broadcastable(Cardinality(DOMAIN bm), num_tokens)
        THEN LET sm == Held(MaskedFill(s, bm))
                 w  == Held(Softmax(sm))
                 wd == CHOOSE d \in { Dropout(0, w, keep) :
                                        keep \in KeepMasks(0, BatchDim(t), num_tokens) } : TRUE
             IN  [ok |-> TRUE, out |-> Held(WeightedSum(wd, v))]
        ELSE [ok |-> FALSE, out |-> None]

\* ------------------------------------------------------------------- state

VARIABLES
    context_length,  \* the context_length the module was built with
    dropout,         \* self.dropout.p, in percent
    W_query,         \* self.W_query.weight
    W_key,           \* self.W_key.weight
    W_value,         \* self.W_value.weight
    mask,            \* the registered buffer self.mask
    pc,              \* per call: the statement of forward it is at
    x,               \* per call: the caller's input tensor
    keys,            \* per call: local keys
    queries,         \* per call: local queries
    values,          \* per call: local values
    attn_scores,     \* per call: local attn_scores
    attn_weights,    \* per call: local attn_weights
    context_vec      \* per call: the tensor returned

module == <<context_length, dropout, W_query, W_key, W_value, mask>>

locals == <<keys, queries, values, attn_scores, attn_weights, context_vec>>

vars == <<module, pc, x, locals>>

\* CausalAttention.__init__ followed by no call yet.
InitModule(ps) ==
    /\ context_length \in 1 .. MaxCtx
    /\ dropout \in ps
    /\ W_query = InitQuery
    /\ W_key = InitKey
    /\ W_value = InitValue
    /\ mask = Triu(context_length, 1)

InitCalls ==
    /\ pc = [c \in Calls |-> "idle"]
    /\ x = [c \in Calls |-> None]
    /\ keys = [c \in Calls |-> None]
    /\ queries = [c \in Calls |-> None]
    /\ values = [c \in Calls |-> None]
    /\ attn_scores = [c \in Calls |-> None]
    /\ attn_weights = [c \in Calls |-> None]
    /\ context_vec = [c \in Calls |-> None]

Init == InitModule(DropoutSettings) /\ InitCalls

\* ca(batch): forward is entered with the caller's tensor.
Call(c, input) ==
    /\ pc[c] = "idle"
    /\ pc' = [pc EXCEPT ![c] = "project"]
    /\ x' = [x EXCEPT ![c] = input]
    /\ UNCHANGED <<module, locals>>

\* Project with values = self.W_key(x).
ProjectValuesWithKey(c) ==
    /\ pc[c] = "project"
    /\ keys' = [keys EXCEPT ![c] = Linear(W_key, x[c])]
    /\ queries' = [queries EXCEPT ![c] = Linear(W_query, x[c])]
    /\ values' = [values EXCEPT ![c] = Linear(W_key, x[c])]
    /\ pc' = [pc EXCEPT ![c] = "score"]
    /\ UNCHANGED <<module, x, attn_scores, attn_weights, context_vec>>

\* keys = self.W_key(x); queries = self.W_query(x); values = self.W_value(x)
Project(c) ==
    /\ pc[c] = "project"
    /\ keys' = [keys EXCEPT ![c] = Linear(W_key, x[c])]
    /\ queries' = [queries EXCEPT ![c] = Linear(W_query, x[c])]
    /\ values' = [values EXCEPT ![c] = Linear(W_value, x[c])]
    /\ pc' = [pc EXCEPT ![c] = "score"]
    /\ UNCHANGED <<module, x, attn_scores, attn_weights, context_vec>>

\* attn_scores = queries @ keys.transpose(1, 2)
Score(c) ==
    /\ pc[c] = "score"
    /\ attn_scores' = [attn_scores EXCEPT ![c] = ScoreMatrix(queries[c], keys[c])]
    /\ pc' = [pc EXCEPT ![c] = "mask"]
    /\ UNCHANGED <<module, x, keys, queries, values, attn_weights, context_vec>>

\* MaskFill on a score buffer every call shares (self.attn_scores).
MaskFillShared(c) ==
    /\ pc[c] = "mask"
    /\ LET num_tokens == NumTokens(x[c])
           bm == Slice(MaskBool(mask), num_tokens)
       IN  IF Broadcastable(Cardinality(DOMAIN bm), num_tokens)
           THEN /\ attn_scores' = [d \in Calls |-> MaskedFill(attn_scores[c], bm)]
                /\ pc' = [pc EXCEPT ![c] = "softmax"]
           ELSE /\ pc' = [pc EXCEPT ![c] = "raised"]
                /\ UNCHANGED attn_scores
    /\ UNCHANGED <<module, x, keys, queries, values, attn_weights, context_vec>>

\* MaskFill that keeps the sliced mask as the module's buffer
\* (self.mask = self.mask[:num_tokens, :num_tokens]).
MaskFillKeepsSlice(c) ==
    /\ pc[c] = "mask"
    /\ LET num_tokens == NumTokens(x[c])
           bm == Slice(MaskBool(mask), num_tokens)
       IN  /\ mask' = Slice(mask, num_tokens)
           /\ IF Broadcastable(Cardinality(DOMAIN bm), num_tokens)
              THEN /\ attn_scores' = [attn_scores EXCEPT ![c] = MaskedFill(@, bm)]
                   /\ pc' = [pc EXCEPT ![c] = "softmax"]
              ELSE /\ pc' = [pc EXCEPT ![c] = "raised"]
                   /\ UNCHANGED attn_scores
    /\ UNCHANGED <<context_length, dropout, W_query, W_key, W_value>>
    /\ UNCHANGED <<x, keys, queries, values, attn_weights, context_vec>>

\* attn_scores.masked_fill_(self.mask.bool()[:num_tokens, :num_tokens], -inf):
\* in place on the call's own score tensor, or a RuntimeError when the sliced
\* mask does not broadcast to it.
MaskFill(c) ==
    /\ pc[c] = "mask"
    /\ LET num_tokens == NumTokens(x[c])
           bm == Slice(MaskBool(mask), num_tokens)
       IN  IF Broadcastable(Cardinality(DOMAIN bm), num_tokens)
           THEN /\ attn_scores' = [attn_scores EXCEPT ![c] = MaskedFill(@, bm)]
                /\ pc' = [pc EXCEPT ![c] = "softmax"]
           ELSE /\ pc' = [pc EXCEPT ![c] = "raised"]
                /\ UNCHANGED attn_scores
    /\ UNCHANGED <<module, x, keys, queries, values, attn_weights, context_vec>>

\* attn_weights = torch.softmax(attn_scores / keys.shape[-1]**0.5, dim=-1)
SoftmaxStep(c) ==
    /\ pc[c] = "softmax"
    /\ attn_weights' = [attn_weights EXCEPT ![c] = Softmax(attn_scores[c])]
    /\ pc' = [pc EXCEPT ![c] = "dropout"]
    /\ UNCHANGED <<module, x, keys, queries, values, attn_scores, context_vec>>

\* attn_weights = self.dropout(attn_weights)
DropoutStep(c) ==
    /\ pc[c] = "dropout"
    /\ \E keep \in KeepMasks(dropout, BatchDim(x[c]), NumTokens(x[c])) :
          attn_weights' = [attn_weights EXCEPT ![c] = Dropout(dropout, @, keep)]
    /\ pc' = [pc EXCEPT ![c] = "matmul"]
    /\ UNCHANGED <<module, x, keys, queries, values, attn_scores, context_vec>>

\* Return that writes the result into one buffer shared by every call.
ReturnShared(c) ==
    /\ pc[c] = "matmul"
    /\ context_vec' = [d \in Calls |-> WeightedSum(attn_weights[c], values[c])]
    /\ pc' = [pc EXCEPT ![c] = "returned"]
    /\ UNCHANGED <<module, x, keys, queries, values, attn_scores, attn_weights>>

\* context_vec = attn_weights @ values; return context_vec
Return(c) ==
    /\ pc[c] = "matmul"
    /\ context_vec' = [context_vec EXCEPT ![c] = WeightedSum(attn_weights[c], values[c])]
    /\ pc' = [pc EXCEPT ![c] = "returned"]
    /\ UNCHANGED <<module, x, keys, queries, values, attn_scores, attn_weights>>

\* The caller is done with the call (its result, or the error raised): the
\* call's tensors are dropped and another call may be made.
Release(c) ==
    /\ pc[c] \in {"returned", "raised"}
    /\ pc' = [pc EXCEPT ![c] = "idle"]
    /\ x' = [x EXCEPT ![c] = None]
    /\ keys' = [keys EXCEPT ![c] = None]
    /\ queries' = [queries EXCEPT ![c] = None]
    /\ values' = [values EXCEPT ![c] = None]
    /\ attn_scores' = [attn_scores EXCEPT ![c] = None]
    /\ attn_weights' = [attn_weights EXCEPT ![c] = None]
    /\ context_vec' = [context_vec EXCEPT ![c] = None]
    /\ UNCHANGED module

\* One statement of the call c.
Step(c) ==
    \/ Project(c)
    \/ Score(c)
    \/ MaskFill(c)
    \/ SoftmaxStep(c)
    \/ DropoutStep(c)
    \/ Return(c)
    \/ Release(c)

\* One caller, one call at a time, on batches of up to context_length + 1
\* tokens.
Next ==
    \/ \E n \in 1 .. context_length + 1 : \E input \in Batches(n) : Call(1, input)
    \/ Step(1)

Spec == Init /\ [][Next]_vars

\* Two callers sharing the instance, their calls interleaved statement by
\* statement, dropout 0, on stacked batches.
InitConc == InitModule({0}) /\ InitCalls

NextConc ==
    \E c \in Calls :
        \/ \E n \in 1 .. MaxConcTokens : \E input \in StackedBatches(n) : Call(c, input)
        \/ Step(c)

SpecConc == InitConc /\ [][NextConc]_vars

\* ------------------------------------------------------------------ claims

\* The module as it stands, applied to a batch t with nothing else running.
Alone(t) == Forward(mask, W_query, W_key, W_value, t)

\* The longest batch a module built with context_length len is given.
LongestFor(len) == IF len + 1 > MaxConcTokens THEN len + 1 ELSE MaxConcTokens

\* What a module built with context_length len returns, run alone, for each
\* batch it may be given.
Built ==
    Held([len \in 1 .. MaxCtx |->
            [t \in UNION { Batches(n) : n \in 1 .. LongestFor(len) } |->
                Forward(Triu(len, 1), InitQuery, InitKey, InitValue, t)]])

\* The call c was given a sequence no longer than context_length.
WithinContext(c) == pc[c] # "idle" /\ NumTokens(x[c]) <= context_length

\* Batch y agrees with batch t at positions 0..i of batch element k.
AgreeUpTo(y, t, k, i) == \A j \in 0 .. i : y[k][j] = t[k][j]

\* C1: with dropout 0 and 1 <= n <= context_length, the context vector
\* returned at position i of batch element k is the one forward returns for
\* every other batch that agrees with the input at positions <= i of element
\* k: changing input vectors at positions j > i never changes output i.
C1_FutureIndependence ==
    \A c \in Calls :
        (pc[c] = "returned" /\ dropout = 0 /\ WithinContext(c)) =>
            \A y \in Batches(NumTokens(x[c])) :
                LET other == Built[context_length][y].out
                IN  \A k \in DOMAIN x[c] : \A i \in DOMAIN x[c][k] :
                        AgreeUpTo(y, x[c], k, i) =>
                            other[k][i] = context_vec[c][k][i]

\* C1 witness: a returned call whose input has a neighbour batch that
\* differs only after position 0 of element 0 and whose output differs at a
\* later position of element 0 (the change matters, but not at position 0).
C1_Witness ==
    /\ pc[1] = "returned" /\ dropout = 0 /\ WithinContext(1)
    /\ \E y \in Batches(NumTokens(x[1])) :
          /\ y[0][0] = x[1][0][0]
          /\ y[1] = x[1][1]
          /\ y[0] # x[1][0]
          /\ Built[context_length][y].out[0] # context_vec[1][0]
          /\ Built[context_length][y].out[0][0] = context_vec[1][0][0]

\* C2: for 1 <= n <= context_length, every row of the attention weights
\* produced by masking and softmax is a probability distribution: entries
\* are non-negative, sum to 1, and are exactly zero at every column j > i.
C2_RowsAreDistributions ==
    \A c \in Calls :
        (pc[c] = "dropout" /\ WithinContext(c)) =>
            \A k \in DOMAIN attn_weights[c] : \A i \in DOMAIN attn_weights[c][k] :
                LET row == attn_weights[c][k][i]
                IN  /\ FSum(row, Cardinality(DOMAIN row)) = FOne
                    /\ \A j \in DOMAIN row : row[j][1] >= 0
                    /\ \A j \in DOMAIN row : j > i => row[j] = FZero

\* C2 witness: softmax has produced a 3 x 3 weight matrix whose last row
\* spreads its mass over several positions.
C2_Witness ==
    /\ pc[1] = "dropout" /\ WithinContext(1) /\ NumTokens(x[1]) = 3
    /\ attn_weights[1][0][2][0] # FZero
    /\ attn_weights[1][0][2][2] # FOne
    /\ attn_weights[1][0][0][1] = FZero

\* C3: a call given more than context_length tokens fails and returns
\* nothing: it never gets past the masking statement.
C3_OverlengthRaises ==
    \A c \in Calls :
        (pc[c] # "idle" /\ NumTokens(x[c]) > context_length) =>
            pc[c] \in {"project", "score", "mask", "raised"}

C5_Determinism ==
    \A c1, c2 \in Calls :
        (dropout = 0 /\ pc[c1] = "returned" /\ pc[c2] = "returned" /\ x[c1] = x[c2]) =>
            context_vec[c1] = context_vec[c2]

\* C5 witness: both calls have returned on the same 3-token input.
C5_Witness ==
    /\ dropout = 0 /\ pc[1] = "returned" /\ pc[2] = "returned"
    /\ x[1] = x[2] /\ NumTokens(x[1]) = 3

\* C6: no step of forward changes the module (weights, mask, settings) or
\* the input tensor of a call in progress, and the in-place masked fill
\* changes nothing but the score tensor of its own call.
C6_NoSideEffects ==
    [][ /\ module' = module
        /\ \A c \in Calls : (pc[c] # "idle" /\ pc'[c] # "idle") => x'[c] = x[c]
        /\ \A c \in Calls :
              (pc[c] = "mask" /\ pc'[c] # "mask") =>
                  /\ <<keys, queries, values, attn_weights, context_vec>>' =
                        <<keys, queries, values, attn_weights, context_vec>>
                  /\ \A d \in Calls \ {c} : attn_scores'[d] = attn_scores[d]
      ]_vars

\* C6 witness: a 3-token call with dropout 50% has returned after its masked fill
\* wrote negative infinity into its scores.
C6_Witness ==
    /\ pc[1] = "returned" /\ dropout = 50 /\ NumTokens(x[1]) = 3
    /\ attn_scores[1][0][0][1].neg_inf
    /\ mask = Triu(context_length, 1)

C8_SingleToken ==
    \A c \in Calls :
        (pc[c] = "returned" /\ dropout = 0 /\ NumTokens(x[c]) = 1) =>
            \A k \in DOMAIN x[c] :
                /\ attn_weights[c][k][0][0] = FOne
                /\ \A o \in 1 .. DOut :
                      context_vec[c][k][0][o] =
                          <<Linear(W_value, x[c])[k][0][o], 1>>

\* C8 witness: a returned call on a batch of two different single tokens,
\* on a module built with context_length 3.
C8_Witness ==
    /\ pc[1] = "returned" /\ dropout = 0 /\ NumTokens(x[1]) = 1
    /\ context_length = 3
    /\ x[1][0][0] # x[1][1][0]

\* C9: for 1 <= n <= context_length, the mask applied is the top-left n x n
\* block of the precomputed mask, true at (i, j) exactly when j > i, the
\* same block whichever context_length >= n the module was built with; and
\* the scores set to negative infinity are exactly those with j > i.
C9_MaskConsistency ==
    \A c \in Calls :
        (pc[c] = "softmax" /\ WithinContext(c)) =>
            LET n == NumTokens(x[c])
                applied == Slice(MaskBool(mask), n)
            IN  /\ applied = [i \in 0 .. n - 1 |-> [j \in 0 .. n - 1 |-> j > i]]
                /\ \A i, j \in 0 .. n - 1 : applied[i][j] = MaskBool(mask)[i][j]
                /\ \A len \in n .. MaxCtx :
                      Slice(MaskBool(Triu(len, 1)), n) = applied
                /\ \A k \in DOMAIN x[c] : \A i, j \in 0 .. n - 1 :
                      attn_scores[c][k][i][j].neg_inf <=> j > i

\* C9 witness: a 2-token call on a module built with context_length 3 has
\* just been masked.
C9_Witness ==
    /\ pc[1] = "softmax" /\ NumTokens(x[1]) = 2 /\ context_length = 3
    /\ attn_scores[1][0][0][1].neg_inf

\* C10: for 1 <= n <= context_length, every row i of the masked scores is
\* finite at the diagonal and at every column j <= i, so no row is entirely
\* negative infinity; row 0 is finite at column 0 only, and softmax gives it
\* weight 1 there.
C10_RowsKeepFiniteEntry ==
    \A c \in Calls :
        /\ (pc[c] = "softmax" /\ WithinContext(c)) =>
              \A k \in DOMAIN attn_scores[c] : \A i \in DOMAIN attn_scores[c][k] :
                  LET row == attn_scores[c][k][i]
                  IN  /\ \A j \in DOMAIN row : j <= i => ~row[j].neg_inf
                      /\ \E j \in DOMAIN row : ~row[j].neg_inf
                      /\ i = 0 => { j \in DOMAIN row : ~row[j].neg_inf } = {0}
        /\ (pc[c] = "dropout" /\ WithinContext(c)) =>
              \A k \in DOMAIN attn_weights[c] : attn_weights[c][k][0][0] = FOne

\* C10 witness: the masked scores of a 3-token call, whose last row is
\* finite throughout and whose first row is masked after column 0.
C10_Witness ==
    /\ pc[1] = "softmax" /\ WithinContext(1) /\ NumTokens(x[1]) = 3
    /\ \A j \in 0 .. 2 : ~attn_scores[1][0][2][j].neg_inf
    /\ attn_scores[1][0][0][1].neg_inf /\ attn_scores[1][0][0][2].neg_inf

=============================================================================
